---- MODULE Spec2Model ----
(***************************************************************************)
(* LastDrop API (src/main.py, src/schemas.py): retailer registration and   *)
(* login, bearer-token sessions, and order CRUD scoped to the              *)
(* authenticated retailer.                                                 *)
(*                                                                         *)
(* The document store is three collections kept in insertion order; every  *)
(* single store call (find, insert, update_one, delete_one) is atomic.     *)
(* A request is handled by a worker.  register decides on one store call   *)
(* (the find) and writes with a later one (the insert), so it is two       *)
(* steps and other requests run in between.  The dependency of the order   *)
(* endpoints reads only sessions and retailers, which no request changes   *)
(* once inserted; update_order and delete_order are still kept in two      *)
(* steps (dependency, store call) so that several requests addressing one  *)
(* order are in flight together.                                           *)
(***************************************************************************)
EXTENDS Integers, Sequences, FiniteSets, TLC

\* ------------------------------------------------------------------ bounds
NumWorkers == 2
\* register and login requests followed
MaxRequests == 3
\* requests to the order endpoints followed
MaxOrderRequests == 2
MaxTicks == 2

\* ------------------------------------------------------- program constants
SessionTTL == 604800
SALT == "ld_static_salt_v1"

Workers == 1..NumWorkers
MaxId == MaxRequests + MaxOrderRequests + 2
None == "<None>"

\* --------------------------------------------------------------- inputs
Emails == {"a@x.com", "b@x.com"}
Passwords == {"pw1", "pw2"}
\* The clock moves by a second or by a second less than a session's
\* lifetime: the instants just before, at and after an expiry are reached.
TickSteps == {1, SessionTTL - 1}
Item1 == [sku |-> "SKU1", title |-> "Drop", qty |-> 2, price |-> 5]

\* Request bodies of POST/PUT /api/orders as the client sends them: fields
\* with a default may be missing, and unknown fields may be present.
Body1 == [order_number |-> "N1", total_amount |-> 10]
Body2 == [order_number |-> "N2", status |-> "shipped", total_amount |-> 20,
          currency |-> "USD", items |-> <<Item1>>, notes |-> "n2",
          retailer_id |-> "r1"]
Body3 == [order_number |-> "N3", status |-> "completed", total_amount |-> 30,
          notes |-> "n3", retailer_id |-> "r2"]
Body4 == [order_number |-> "N4", status |-> "cancelled", total_amount |-> 40,
          currency |-> "USD"]
RawBodies == {Body1, Body2, Body3, Body4}

\* Path parameter order_id: ids the store may hold, and one malformed id.
OrderIdInputs == {"o1", "o2", "zz"}

\* retailer, session, order: the collections.  now: time.time().
\* req: what each worker is doing.  response: the last HTTP response.
\* History (read by no action's guard or result):
\*   creds   the password each retailer document was registered with
\*   issued  for each session, the login request that created it
\*   hist    for each order id ever assigned, who created the order and the
\*           body last written to it
\*   last    the request the last step completed, if it completed one
VARIABLES retailer, session, order, now, req, response,
          creds, issued, hist, last, nreq, nord, nticks

vars == <<retailer, session, order, now, req, response,
          creds, issued, hist, last, nreq, nord, nticks>>

\* ----------------------------------------------------------- ObjectId
\* bson.ObjectId: a value distinct from its string form.  Str is str(oid);
\* ObjectId(s) parses a string and raises InvalidId when it is malformed.
WellFormed == {c \o ToString(n) : c \in {"r", "s", "o"}, n \in 1..MaxId}
ValidOid(s) == s \in WellFormed
ObjectId(s) == [hex |-> s]
Str(oid) == oid.hex

\* ------------------------------------------------------------- store
\* The ObjectId the store assigns to the n-th document of a collection.
NewId(c, n) == ObjectId(c \o ToString(n))

\* database.create_document: one insert; the store assigns a fresh _id.
\* The result is the collection after the insert.
create_document(coll, c, n, doc) ==
    Append(coll, [f \in DOMAIN doc \cup {"_id"} |->
                    IF f = "_id" THEN NewId(c, n) ELSE doc[f]])

\* A filter document {field: value, ...} matches the documents that hold
\* each of these values.
Matches(d, filter) == \A f \in DOMAIN filter : d[f] = filter[f]

\* collection.find(filter): the matching documents, in natural order.
find(coll, filter) ==
    LET Test(d) == Matches(d, filter) IN SelectSeq(coll, Test)

\* collection.find_one(filter): the first match, as <<doc>>, or <<>>.
find_one(coll, filter) ==
    LET m == find(coll, filter) IN IF m = <<>> THEN <<>> ELSE <<m[1]>>

FirstIndex(coll, filter) ==
    CHOOSE i \in 1..Len(coll) :
        /\ Matches(coll[i], filter)
        /\ \A j \in 1..(i - 1) : ~Matches(coll[j], filter)

\* collection.update_one(filter, {"$set": fields}): the first match gets
\* every field of `fields`; no match, no change (no upsert).
update_one(coll, filter, fields) ==
    IF \E i \in 1..Len(coll) : Matches(coll[i], filter)
    THEN LET i == FirstIndex(coll, filter)
             d == coll[i]
         IN  [coll EXCEPT ![i] =
                 [f \in DOMAIN d \cup DOMAIN fields |->
                     IF f \in DOMAIN fields THEN fields[f] ELSE d[f]]]
    ELSE coll

\* collection.delete_one(filter): the first match is removed.
delete_one(coll, filter) ==
    IF \E i \in 1..Len(coll) : Matches(coll[i], filter)
    THEN LET i == FirstIndex(coll, filter)
         IN  SubSeq(coll, 1, i - 1) \o SubSeq(coll, i + 1, Len(coll))
    ELSE coll

\* ------------------------------------------------------------ hashing
\* hashlib.sha256(...).hexdigest(): a digest that determines its input.
sha256(s) == "sha256(" \o s \o ")"
\* Mutant: the digest does not depend on the password.
hash_password_NoPassword(pw) == SALT \o "$" \o sha256(SALT)

hash_password(pw) == SALT \o "$" \o sha256(SALT \o pw)

\* ------------------------------------------------------------ schemas
Retailer(email, password_hash, company, contact_name) ==
    [email |-> email, password_hash |-> password_hash, company |-> company,
     contact_name |-> contact_name, role |-> "retailer"]

Session(token, retailer_id, expires_at) ==
    [token |-> token, retailer_id |-> retailer_id, expires_at |-> expires_at]

TokenOut(token) ==
    [status |-> 200, detail |-> "ok", id |-> "", token |-> token,
     orders |-> <<>>]

Order(retailer_id, data) ==
    [retailer_id |-> retailer_id, order_number |-> data.order_number,
     status |-> data.status, total_amount |-> data.total_amount,
     currency |-> data.currency, items |-> data.items, notes |-> data.notes]

\* Mutant: an unknown field retailer_id of the body is kept.
OrderIn_KeepExtra(raw) ==
    [f \in {"order_number", "status", "total_amount", "currency", "items",
            "notes"} \cup (DOMAIN raw \cap {"retailer_id"}) |->
        IF f \in DOMAIN raw THEN raw[f]
        ELSE CASE f = "status" -> "processing"
               [] f = "currency" -> "EUR"
               [] f = "items" -> <<>>
               [] f = "notes" -> None]

\* OrderIn: the request body as the handler sees it.  Defaults fill the
\* missing fields and fields the model does not declare are dropped.
OrderIn(raw) ==
    [order_number |-> raw.order_number,
     status |-> IF "status" \in DOMAIN raw THEN raw.status ELSE "processing",
     total_amount |-> raw.total_amount,
     currency |-> IF "currency" \in DOMAIN raw THEN raw.currency ELSE "EUR",
     items |-> IF "items" \in DOMAIN raw THEN raw.items ELSE <<>>,
     notes |-> IF "notes" \in DOMAIN raw THEN raw.notes ELSE None]

\* ----------------------------------------------------------- responses
\* The last HTTP response sent: status code, the detail of an error (or the
\* "status" field of a success body), and the other fields of the body.
\* NoResponse: the last step sent none.
NoResponse == [status |-> 0, detail |-> "", id |-> "", token |-> "",
               orders |-> <<>>]
Reply(status, detail) ==
    [status |-> status, detail |-> detail, id |-> "", token |-> "",
     orders |-> <<>>]
HTTPException(status_code, detail) == Reply(status_code, detail)
Ok == Reply(200, "ok")

Idle == [pc |-> "idle"]
IdleWorker == \E w \in Workers : req[w].pc = "idle"

\* last: the endpoint, the token presented, and for a request that passed the
\* dependency the id of the retailer it resolved to and the path parameter.
NoLast == [op |-> "none", token |-> "", caller |-> "", order_id |-> ""]
Done(op, token, caller, order_id) ==
    [op |-> op, token |-> token, caller |-> caller, order_id |-> order_id]

\* -------------------------------------------------------------- headers
\* An Authorization header is the sequence of its space-separated parts;
\* <<>> is a missing (or empty) header.
Lower(s) == IF s = "Bearer" THEN "bearer" ELSE s
secrets_token(n) == "tok" \o ToString(n)
Tokens == {session[i].token : i \in 1..Len(session)}
Headers ==
    {<<>>} \cup
    { <<sch, t>> : sch \in {"Bearer", "bearer", "Basic"},
                   t \in {"bogus"} \cup Tokens }

Presented(authorization) ==
    IF Len(authorization) >= 2 THEN authorization[2] ELSE ""

\* ------------------------------------------------------ initial states
Init ==
    /\ retailer = <<>>
    /\ session = <<>>
    /\ order = <<>>
    /\ now = 0
    /\ req = [w \in Workers |-> Idle]
    /\ response = NoResponse
    /\ creds = <<>>
    /\ issued = <<>>
    /\ hist = <<>>
    /\ last = NoLast
    /\ nreq = 0
    /\ nord = 0
    /\ nticks = 0

Admit == nreq < MaxRequests /\ nreq' = nreq + 1
AdmitOrder == nord < MaxOrderRequests /\ nord' = nord + 1

\* --------------------------------------------------- POST /api/auth/register
\* The existence check (the find) of register.
RegisterFind(w, email, password) ==
    /\ req[w].pc = "idle"
    /\ Admit
    /\ LET existing == find(retailer, [email |-> email]) IN
       IF existing # <<>>
       THEN /\ response' = HTTPException(400, "Account already exists")
            /\ last' = Done("register", "", "", "")
            /\ req' = req
       ELSE /\ response' = NoResponse
            /\ last' = NoLast
            /\ req' = [req EXCEPT ![w] =
                        [pc |-> "register", email |-> email,
                         password |-> password]]
    /\ UNCHANGED <<retailer, session, order, now, creds, issued, hist,
                   nord, nticks>>

\* The insert of register.
RegisterInsert(w) ==
    /\ req[w].pc = "register"
    /\ LET doc == Retailer(req[w].email, hash_password(req[w].password),
                           None, None)
           n == Len(retailer) + 1
       IN  /\ retailer' = create_document(retailer, "r", n, doc)
           /\ response' = [Ok EXCEPT !.id = Str(NewId("r", n))]
    /\ creds' = Append(creds, req[w].password)
    /\ last' = Done("register", "", "", "")
    /\ req' = [req EXCEPT ![w] = Idle]
    /\ UNCHANGED <<session, order, now, issued, hist, nreq, nord, nticks>>

\* ------------------------------------------------------ POST /api/auth/login
Login(email, password) ==
    /\ IdleWorker
    /\ Admit
    /\ LET rec == find_one(retailer, [email |-> email]) IN
       IF rec = <<>> \/ rec[1].password_hash # hash_password(password)
       THEN /\ response' = HTTPException(401, "Invalid credentials")
            /\ UNCHANGED <<session, issued>>
       ELSE LET n == Len(session) + 1
                token == secrets_token(n)
                sess == Session(token, Str(rec[1]._id), now + SessionTTL)
            IN  /\ session' = create_document(session, "s", n, sess)
                /\ issued' = Append(issued,
                                    [token |-> token, email |-> email,
                                     password |-> password, at |-> now])
                /\ response' = TokenOut(token)
    /\ last' = Done("login", "", "", "")
    /\ UNCHANGED <<retailer, order, now, req, creds, hist, nord, nticks>>

\* Mutant: a session is rejected from its expiry instant on (<= for <).
get_current_retailer_ExpiresEarly(authorization) ==
    IF authorization = <<>> \/ Len(authorization) < 2
          \/ Lower(authorization[1]) # "bearer"
    THEN [ok |-> FALSE, status |-> 401, detail |-> "Missing token"]
    ELSE LET token == authorization[2]
             sess == find_one(session, [token |-> token])
         IN  IF sess = <<>> \/ sess[1].expires_at <= now
             THEN [ok |-> FALSE, status |-> 401,
                   detail |-> "Invalid or expired token"]
             ELSE LET r == find_one(retailer,
                             [_id |-> ObjectId(sess[1].retailer_id)])
                  IN  IF r = <<>>
                      THEN [ok |-> FALSE, status |-> 401,
                            detail |-> "Retailer not found"]
                      ELSE [ok |-> TRUE, retailer |-> r[1], token |-> token]

\* ------------------------------------------------- get_current_retailer
\* The dependency of every order endpoint: the retailer the Authorization
\* header resolves to, or the HTTPException raised.
get_current_retailer(authorization) ==
    IF authorization = <<>> \/ Len(authorization) < 2
          \/ Lower(authorization[1]) # "bearer"
    THEN [ok |-> FALSE, status |-> 401, detail |-> "Missing token"]
    ELSE LET token == authorization[2]
             sess == find_one(session, [token |-> token])
         IN  IF sess = <<>> \/ sess[1].expires_at < now
             THEN [ok |-> FALSE, status |-> 401,
                   detail |-> "Invalid or expired token"]
             ELSE LET r == find_one(retailer,
                             [_id |-> ObjectId(sess[1].retailer_id)])
                  IN  IF r = <<>>
                      THEN [ok |-> FALSE, status |-> 401,
                            detail |-> "Retailer not found"]
                      ELSE [ok |-> TRUE, retailer |-> r[1], token |-> token]

\* ------------------------------------------------------- GET /api/orders
list_orders(current) ==
    LET orders == find(order, [retailer_id |-> Str(current._id)])
    IN  [i \in 1..Len(orders) |-> [orders[i] EXCEPT !._id = Str(@)]]

ListOrders(authorization) ==
    /\ IdleWorker
    /\ AdmitOrder
    /\ LET cur == get_current_retailer(authorization) IN
       IF ~cur.ok
       THEN /\ response' = HTTPException(cur.status, cur.detail)
            /\ last' = Done("list", Presented(authorization), "", "")
       ELSE /\ response' = [Ok EXCEPT !.orders = list_orders(cur.retailer)]
            /\ last' = Done("list", cur.token, Str(cur.retailer._id), "")
    /\ UNCHANGED <<retailer, session, order, now, req, creds, issued, hist,
                   nreq, nticks>>

\* ------------------------------------------------------ POST /api/orders
create_order(data, current) == Order(Str(current._id), data)

CreateOrder(authorization, raw) ==
    /\ IdleWorker
    /\ AdmitOrder
    /\ LET cur == get_current_retailer(authorization)
           data == OrderIn(raw)
           n == Len(hist) + 1
           oid == Str(NewId("o", n))
       IN  IF ~cur.ok
           THEN /\ response' = HTTPException(cur.status, cur.detail)
                /\ last' = Done("create", Presented(authorization), "", "")
                /\ UNCHANGED <<order, hist>>
           ELSE /\ order' = create_document(order, "o", n,
                                create_order(data, cur.retailer))
                /\ hist' = Append(hist,
                             [id |-> oid, creator |-> Str(cur.retailer._id),
                              token |-> cur.token, last |-> data])
                /\ response' = [Ok EXCEPT !.id = oid]
                /\ last' = Done("create", cur.token,
                                Str(cur.retailer._id), oid)
    /\ UNCHANGED <<retailer, session, now, req, creds, issued, nreq, nticks>>

\* ------------------------------------------- PUT /api/orders/{order_id}
\* The request has passed the dependency and the handler has built its
\* filter: ObjectId(order_id) raises on a malformed id, before any store
\* call, and the framework answers 500.
UpdateOrderCall(w, authorization, order_id, raw) ==
    /\ req[w].pc = "idle"
    /\ AdmitOrder
    /\ LET cur == get_current_retailer(authorization) IN
       IF ~cur.ok
       THEN /\ response' = HTTPException(cur.status, cur.detail)
            /\ last' = Done("update", Presented(authorization), "", "")
            /\ req' = req
       ELSE IF ~ValidOid(order_id)
       THEN /\ response' = Reply(500, "Internal Server Error")
            /\ last' = Done("update", cur.token, Str(cur.retailer._id),
                            order_id)
            /\ req' = req
       ELSE /\ response' = NoResponse
            /\ last' = NoLast
            /\ req' = [req EXCEPT ![w] =
                        [pc |-> "update", current |-> cur.retailer,
                         token |-> cur.token, order_id |-> order_id,
                         data |-> OrderIn(raw)]]
    /\ UNCHANGED <<retailer, session, order, now, creds, issued, hist,
                   nreq, nticks>>

\* Mutant: the filter names the order alone, not its owner.
OrderFilter_NoOwner(order_id, current) == [_id |-> ObjectId(order_id)]

OrderFilter(order_id, current) ==
    [_id |-> ObjectId(order_id), retailer_id |-> Str(current._id)]

\* Mutant: the update writes the status of the body alone.
update_order_StatusOnly(order_id, data, current) ==
    update_one(order, OrderFilter(order_id, current),
               [status |-> data.status])

update_order(order_id, data, current) ==
    update_one(order, OrderFilter(order_id, current), data)

\* The order the request addresses is one the caller created.
Owns(w) ==
    \E i \in 1..Len(hist) :
        /\ hist[i].id = req[w].order_id
        /\ hist[i].creator = Str(req[w].current._id)
        /\ \E j \in 1..Len(order) : Str(order[j]._id) = hist[i].id

UpdateOrder(w) ==
    /\ req[w].pc = "update"
    /\ order' = update_order(req[w].order_id, req[w].data, req[w].current)
    /\ hist' = [i \in 1..Len(hist) |->
                  IF hist[i].id = req[w].order_id /\ Owns(w)
                  THEN [hist[i] EXCEPT !.last = req[w].data]
                  ELSE hist[i]]
    /\ response' = Ok
    /\ last' = Done("update", req[w].token, Str(req[w].current._id),
                    req[w].order_id)
    /\ req' = [req EXCEPT ![w] = Idle]
    /\ UNCHANGED <<retailer, session, now, creds, issued, nreq, nord, nticks>>

\* ---------------------------------------- DELETE /api/orders/{order_id}
DeleteOrderCall(w, authorization, order_id) ==
    /\ req[w].pc = "idle"
    /\ AdmitOrder
    /\ LET cur == get_current_retailer(authorization) IN
       IF ~cur.ok
       THEN /\ response' = HTTPException(cur.status, cur.detail)
            /\ last' = Done("delete", Presented(authorization), "", "")
            /\ req' = req
       ELSE IF ~ValidOid(order_id)
       THEN /\ response' = Reply(500, "Internal Server Error")
            /\ last' = Done("delete", cur.token, Str(cur.retailer._id),
                            order_id)
            /\ req' = req
       ELSE /\ response' = NoResponse
            /\ last' = NoLast
            /\ req' = [req EXCEPT ![w] =
                        [pc |-> "delete", current |-> cur.retailer,
                         token |-> cur.token, order_id |-> order_id]]
    /\ UNCHANGED <<retailer, session, order, now, creds, issued, hist,
                   nreq, nticks>>

\* Mutant: the delete is filtered by order id alone.
delete_order_ById(order_id, current) ==
    delete_one(order, [_id |-> ObjectId(order_id)])

delete_order(order_id, current) ==
    delete_one(order, OrderFilter(order_id, current))

DeleteOrder(w) ==
    /\ req[w].pc = "delete"
    /\ order' = delete_order(req[w].order_id, req[w].current)
    /\ response' = Ok
    /\ last' = Done("delete", req[w].token, Str(req[w].current._id),
                    req[w].order_id)
    /\ req' = [req EXCEPT ![w] = Idle]
    /\ UNCHANGED <<retailer, session, now, creds, issued, hist,
                   nreq, nord, nticks>>

\* ------------------------------------------------------------ time.time()
Tick(d) ==
    /\ nticks < MaxTicks
    /\ nticks' = nticks + 1
    /\ now' = now + d
    /\ response' = NoResponse
    /\ last' = NoLast
    /\ UNCHANGED <<retailer, session, order, req, creds, issued, hist,
                   nreq, nord>>

\* ------------------------------------------------------- specifications
\* Accounts and sessions, from the empty store.
Next ==
    \/ \E w \in Workers, e \in Emails, p \in Passwords : RegisterFind(w, e, p)
    \/ \E w \in Workers : RegisterInsert(w)
    \/ \E e \in Emails, p \in Passwords : Login(e, p)
    \/ \E h \in Headers : ListOrders(h)
    \/ \E h \in Headers : CreateOrder(h, Body3)

Spec == Init /\ [][Next]_vars

\* Two tenants registered with different emails, each logged in once at
\* time 0, and an order the first of them created: the state after
\* register, register, login, login, create.
InitTenants ==
    /\ retailer =
          create_document(
              create_document(<<>>, "r", 1,
                  Retailer("a@x.com", hash_password("pw1"), None, None)),
              "r", 2, Retailer("b@x.com", hash_password("pw2"), None, None))
    /\ session =
          create_document(
              create_document(<<>>, "s", 1,
                  Session(secrets_token(1), "r1", SessionTTL)),
              "s", 2, Session(secrets_token(2), "r2", SessionTTL))
    /\ order = create_document(<<>>, "o", 1,
                   create_order(OrderIn(Body1), retailer[1]))
    /\ now = 0
    /\ req = [w \in Workers |-> Idle]
    /\ response = NoResponse
    /\ creds = <<"pw1", "pw2">>
    /\ issued = << [token |-> secrets_token(1), email |-> "a@x.com",
                    password |-> "pw1", at |-> 0],
                   [token |-> secrets_token(2), email |-> "b@x.com",
                    password |-> "pw2", at |-> 0] >>
    /\ hist = << [id |-> "o1", creator |-> "r1", token |-> secrets_token(1),
                  last |-> OrderIn(Body1)] >>
    /\ last = NoLast
    /\ nreq = 0
    /\ nord = 0
    /\ nticks = 0

\* Sessions over time.
NextClock ==
    \/ \E d \in TickSteps : Tick(d)
    \/ \E p \in Passwords : Login("a@x.com", p)
    \/ \E h \in Headers : ListOrders(h)

SpecClock == InitTenants /\ [][NextClock]_vars

\* The order endpoints, two tenants.
NextOrders ==
    \/ \E h \in Headers : ListOrders(h)
    \/ \E h \in Headers, b \in RawBodies : CreateOrder(h, b)
    \/ \E w \in Workers, h \in Headers, o \in OrderIdInputs, b \in RawBodies :
          UpdateOrderCall(w, h, o, b)
    \/ \E w \in Workers : UpdateOrder(w)
    \/ \E w \in Workers, h \in Headers, o \in OrderIdInputs :
          DeleteOrderCall(w, h, o)
    \/ \E w \in Workers : DeleteOrder(w)

SpecOrders == InitTenants /\ [][NextOrders]_vars

\* =============================================================== claims
HistOf(id) == hist[CHOOSE i \in 1..Len(hist) : hist[i].id = id]
\* The email of the login request that issued a token.
LoginEmail(t) == issued[CHOOSE i \in 1..Len(issued) : issued[i].token = t].email
\* The email a retailer id was registered with.
RetailerEmail(rid) ==
    retailer[CHOOSE i \in 1..Len(retailer) : Str(retailer[i]._id) = rid].email
\* The order was created by another retailer than the one the token of the
\* last request was issued to.
Foreign(d) ==
    RetailerEmail(HistOf(Str(d._id)).creator) # LoginEmail(last.token)
OrderInFields ==
    {"order_number", "status", "total_amount", "currency", "items", "notes"}
Stored(d) == [f \in OrderInFields |-> d[f]]

\* C1: tenant isolation.  A list answered to retailer B's token holds no
\* order another retailer created, and an update or delete made with B's
\* token leaves every order another retailer created in the collection as
\* it was, whatever order_id B supplies.
C1_TenantIsolation ==
    [][ /\ (last'.op = "list" /\ response'.status = 200) =>
              \A i \in 1..Len(response'.orders) :
                  RetailerEmail(HistOf(response'.orders[i]._id).creator)
                      = LoginEmail(last'.token)
        /\ (last'.op \in {"update", "delete"} /\ response'.status = 200) =>
              \A j \in 1..Len(order) :
                  RetailerEmail(HistOf(Str(order[j]._id)).creator)
                        # LoginEmail(last'.token)
                    => \E k \in 1..Len(order') : order'[k] = order[j]
      ]_vars

\* An update or delete carrying another tenant's exact order id has run.
C1_Witness ==
    /\ last.op \in {"update", "delete"}
    /\ response.status = 200
    /\ \E j \in 1..Len(order) :
          Str(order[j]._id) = last.order_id /\ Foreign(order[j])

\* C2: the retailer collection holds at most one document per email, in
\* every reachable state, under any interleaving of register requests.
C2_EmailUnique ==
    \A i, j \in 1..Len(retailer) :
        retailer[i].email = retailer[j].email => i = j

\* C6: the stored status of an order changes only along processing ->
\* shipped, shipped -> completed, processing -> cancelled, shipped ->
\* cancelled; nothing leaves completed or cancelled.
Transitions ==
    { <<"processing", "shipped">>, <<"shipped", "completed">>,
      <<"processing", "cancelled">>, <<"shipped", "cancelled">> }
C6_StatusMachine ==
    [][ \A j \in 1..Len(order), k \in 1..Len(order') :
            (order[j]._id = order'[k]._id
                /\ order[j].status # order'[k].status)
            => <<order[j].status, order'[k].status>> \in Transitions ]_vars

\* C7: an update or delete whose order_id names an order of another
\* retailer leaves the order collection unchanged and is answered
\* {status: ok}, exactly as one whose order_id names no order at all.
NotOwned ==
    \A j \in 1..Len(order) :
        Str(order[j]._id) = last'.order_id =>
            HistOf(Str(order[j]._id)).creator # last'.caller
C7_NoExistenceLeak ==
    [][ (last'.op \in {"update", "delete"} /\ last'.caller # ""
            /\ ValidOid(last'.order_id) /\ NotOwned)
        => (order' = order /\ response' = Ok) ]_vars

\* An update or delete on an existing order of another retailer was
\* answered ok.
C7_Witness ==
    /\ last.op \in {"update", "delete"}
    /\ response = Ok
    /\ \E j \in 1..Len(order) :
          /\ Str(order[j]._id) = last.order_id
          /\ HistOf(last.order_id).creator # last.caller

\* C9: every stored order's retailer_id is the id of the authenticated
\* retailer whose create_order request inserted it, whatever the bodies of
\* the create and of later updates contain.
C9_OwnerServerAssigned ==
    \A j \in 1..Len(order) :
        order[j].retailer_id = HistOf(Str(order[j]._id)).creator

\* An update whose body carried retailer_id "r2" was applied to an order
\* of retailer r1.
C9_Witness ==
    /\ last.op = "update"
    /\ \E j \in 1..Len(order) :
          /\ Str(order[j]._id) = last.order_id
          /\ order[j].order_number = Body3.order_number
          /\ Body3.retailer_id # order[j].retailer_id

\* C10: every stored order carries all the fields of exactly one body, the
\* one written to it last (no mixture of two bodies), and an order that a
\* delete removed stays absent whatever update was in flight with it.
C10_LastWriterWins ==
    [][ /\ \A j \in 1..Len(order') :
              \E i \in 1..Len(hist') :
                  /\ hist'[i].id = Str(order'[j]._id)
                  /\ Stored(order'[j]) = hist'[i].last
        /\ \A i \in 1..Len(hist) :
              (\A j \in 1..Len(order) : Str(order[j]._id) # hist[i].id)
              => (\A k \in 1..Len(order') : Str(order'[k]._id) # hist[i].id)
      ]_vars

\* One of two updates of the same retailer on the same order, in flight
\* together with different bodies, has written; the other is still to.
C10_Witness ==
    /\ last.op = "update"
    /\ response = Ok
    /\ \E w \in Workers, j \in 1..Len(order) :
          /\ req[w].pc = "update"
          /\ req[w].order_id = last.order_id
          /\ Str(req[w].current._id) = last.caller
          /\ Str(order[j]._id) = last.order_id
          /\ order[j].retailer_id = last.caller
          /\ req[w].data # Stored(order[j])

\* The retailer a token resolves to when presented now.
Resolve(t) == get_current_retailer(<<"Bearer", t>>)

\* C3: a session created by login at time t has expires_at = t + 604800
\* at all times; its token is accepted at every time up to expires_at and
\* rejected with 401 at every time after it, whatever requests were made.
C3_SessionLifetime ==
    \A i \in 1..Len(session) :
        /\ session[i].token = issued[i].token
        /\ session[i].expires_at = issued[i].at + 604800
        /\ now <= issued[i].at + 604800 => Resolve(session[i].token).ok
        /\ now > issued[i].at + 604800 =>
              /\ ~Resolve(session[i].token).ok
              /\ Resolve(session[i].token).status = 401

\* After requests the token authenticated, the token was presented past
\* its expiry and rejected.
C3_Witness ==
    /\ last.op = "list"
    /\ response = HTTPException(401, "Invalid or expired token")
    /\ nord >= 2
    /\ \E i \in 1..Len(session) :
          /\ session[i].token = last.token
          /\ now > session[i].expires_at

\* C4: every rejection by get_current_retailer is the same response,
\* 401 "Invalid or expired token".
C4_UniformAuthFailure ==
    (last.op \in {"list", "create", "update", "delete"} /\ last.caller = "")
    => response = HTTPException(401, "Invalid or expired token")

\* C5: login with an email that has a retailer document and the password
\* it was registered with returns a token and inserts exactly one session;
\* any other login is answered 401 "Invalid credentials" and inserts none.
Registered(e, p) ==
    \E i \in 1..Len(retailer) : retailer[i].email = e /\ creds[i] = p
C5_LoginOutcome ==
    [][ \A e \in Emails, p \in Passwords :
            Login(e, p) =>
                IF Registered(e, p)
                THEN /\ response'.status = 200
                     /\ response'.token # ""
                     /\ Len(session') = Len(session) + 1
                     /\ session'[Len(session')].token = response'.token
                ELSE /\ response' = HTTPException(401, "Invalid credentials")
                     /\ session' = session ]_vars

\* C8: every token get_current_retailer accepts resolves to the retailer
\* whose email and password the login that issued it presented; an order
\* created with the token, and every order listed with it, carries that
\* retailer's id.
C8_TokenBinding ==
    /\ \A i \in 1..Len(session) :
          Resolve(session[i].token).ok =>
              \E k \in 1..Len(retailer) :
                  /\ retailer[k] = Resolve(session[i].token).retailer
                  /\ retailer[k].email = issued[i].email
                  /\ creds[k] = issued[i].password
    /\ \A j \in 1..Len(order) :
          Resolve(HistOf(Str(order[j]._id)).token).ok =>
              order[j].retailer_id =
                  Str(Resolve(HistOf(Str(order[j]._id)).token).retailer._id)
    /\ (last.op = "list" /\ response.status = 200 /\ Resolve(last.token).ok)
          => \A i \in 1..Len(response.orders) :
                 response.orders[i].retailer_id =
                     Str(Resolve(last.token).retailer._id)

\* With two retailers registered, a token listed the order created with it.
C8_Witness ==
    /\ Len(retailer) >= 2
    /\ last.op = "list"
    /\ response.status = 200
    /\ \E i \in 1..Len(response.orders) :
          HistOf(response.orders[i]._id).token = last.token

====
